---- MODULE Spec2Model ----
(***************************************************************************)
(* Stage pipeline of the RFP proposal analyzer.                            *)
(*                                                                         *)
(* Three deployments of the same workflow are modelled, selected by the    *)
(* variable `variant`:                                                     *)
(*   "app"      src/backend/app.py, the single-process Streamlit app that  *)
(*              calls GeminiClient (src/backend/gemini_client.py) itself;  *)
(*   "frontend" src/frontend/main.py, the Streamlit page that calls the    *)
(*              FastAPI backend over HTTP;                                 *)
(*   "api"      src/backend/main.py, the FastAPI endpoints called by an    *)
(*              arbitrary HTTP client.                                     *)
(*                                                                         *)
(* A Streamlit action is one user interaction: the script run in which    *)
(* the widget reports the interaction, the handler, and the script run    *)
(* started by st.rerun().  The page code computes a stage result when it   *)
(* renders a step whose result slot is falsy, so a render is part of the   *)
(* action that causes it.                                                  *)
(*                                                                         *)
(* A text is identified by the document it was extracted from; an LLM      *)
(* output carries the document whose text was put in its prompt.  The      *)
(* empty text and the error messages are the same for every document.     *)
(*                                                                         *)
(* The proposal methods of GeminiClient are coroutine functions.  The      *)
(* backend awaits them; app.py calls them without await.  They are         *)
(* modelled by the outcomes of their bodies in both cases: the value a     *)
(* slot of app.py receives without await is a truthy object, which is the  *)
(* "ok" outcome as far as the session state is concerned.                  *)
(***************************************************************************)
EXTENDS Integers, Sequences, FiniteSets, TLC

MaxDocs == 2

Docs == 1..MaxDocs

Variants == {"app", "frontend", "api"}

(* st.file_uploader(type=["pdf", "docx", "txt"]) *)
DOCX == "application/vnd.openxmlformats-officedocument.wordprocessingml.document"
UploadTypes == {"text/plain", "application/pdf", DOCX}
ContentTypes == UploadTypes \cup {"image/png"}

(* an uploaded file: the document it holds and its content type *)
File(d, t) == [doc |-> d, type |-> t]
(* the uploader widget holds a document, or nothing *)
NoFile == 0

(* outcome of one model.generate_content(prompt) call: a non-empty text,  *)
(* an empty text, or an exception                                          *)
LLMOutcomes == {"ok", "empty", "fail"}
(* outcome of reading / converting an uploaded file *)
ExtOutcomes == {"text", "nothing", "raise"}

(***************************************************************************)
(* Python values held in result slots.  tag:                               *)
(*   "None"       None                                                     *)
(*   "text"       non-empty LLM output                                     *)
(*   "empty"      the empty string                                         *)
(*   "error"      the string "Error in ...: <exception>" returned by the   *)
(*                except branch of a GeminiClient method                   *)
(*   "tuple_ok"   (result, None) with non-empty result   (frontend)        *)
(*   "tuple_empty" ('', None)                            (frontend)        *)
(*   "tuple_errtext" ("Error in ...", None)              (frontend)        *)
(*   "tuple_err"  (None, "<error message>")              (frontend)        *)
(*   "raise"      the call raised (never stored)                           *)
(***************************************************************************)
Val(t, d) == [tag |-> t, doc |-> d]
None == Val("None", 0)
Empty == Val("empty", 0)
Error == Val("error", 0)
Raise == Val("raise", 0)
Tags == {"None", "text", "empty", "error", "tuple_ok", "tuple_empty",
         "tuple_errtext", "tuple_err"}
Values == [tag : Tags, doc : 0..MaxDocs]

(* Python truthiness: None and '' are falsy, a non-empty str and any      *)
(* 2-tuple are truthy                                                      *)
Truthy(v) == v.tag \notin {"None", "empty"}

(***************************************************************************)
(* GeminiClient                                                            *)
(***************************************************************************)
(* response = self.model.generate_content(prompt); return response.text   *)
analysis_proposal(doc, o) ==
    CASE o = "ok" -> Val("text", doc)
      [] o = "empty" -> Empty
      [] OTHER -> Raise

(* try: return response.text / except Exception as e: return f"Error ..." *)
analyze_pricing(doc, o) ==
    CASE o = "ok" -> Val("text", doc)
      [] o = "empty" -> Empty
      [] OTHER -> Error

analyze_cost_realism(doc, o) ==
    CASE o = "ok" -> Val("text", doc)
      [] o = "empty" -> Empty
      [] OTHER -> Error

technical_analysis_review(doc, o) ==
    CASE o = "ok" -> Val("text", doc)
      [] o = "empty" -> Empty
      [] OTHER -> Error

compliance_assessment(doc, o) ==
    CASE o = "ok" -> Val("text", doc)
      [] o = "empty" -> Empty
      [] OTHER -> Error

analysis_proposal_summary(doc, o) ==
    CASE o = "ok" -> Val("text", doc)
      [] o = "empty" -> Empty
      [] OTHER -> Error

(* returns response.text when there is a response, else None; every       *)
(* exception is re-raised                                                  *)
extract_text_from_docx_proposal(doc, oe) ==
    CASE oe = "text" -> Val("text", doc)
      [] oe = "nothing" -> None
      [] OTHER -> Raise

(* extract_text_from_pdf_file_proposal raises "No text content returned"  *)
(* when the response has no text; every exception is re-raised            *)
extract_text_from_uploaded_pdf_proposal(doc, oe) ==
    CASE oe = "text" -> Val("text", doc)
      [] OTHER -> Raise

(***************************************************************************)
(* Text extraction of an upload.  The result is the extracted text        *)
(* (tag "text"), a falsy value ("empty" or "None"), or an exception.       *)
(***************************************************************************)
(* app.py: no try/except, exceptions of the client propagate *)
process_uploaded_file_Proposal(f, oe) ==
    CASE f.type = "text/plain" ->
            (CASE oe = "text" -> Val("text", f.doc)
               [] oe = "nothing" -> Empty
               [] OTHER -> Raise)
      [] f.type = DOCX ->
            LET content == extract_text_from_docx_proposal(f.doc, oe)
            IN IF content.tag = "raise" \/ Truthy(content) THEN content ELSE None
      [] f.type = "application/pdf" ->
            LET content == extract_text_from_uploaded_pdf_proposal(f.doc, oe)
            IN IF content.tag = "raise" \/ Truthy(content) THEN content ELSE None
      [] OTHER -> None

(* main.py: the same dispatch on content_type inside try/except that      *)
(* re-raises as Exception("Error processing file ...")                     *)
api_process_uploaded_file_Proposal(f, oe) ==
    CASE f.type = "text/plain" ->
            (CASE oe = "text" -> Val("text", f.doc)
               [] oe = "nothing" -> Empty
               [] OTHER -> Raise)
      [] f.type = DOCX ->
            LET content == extract_text_from_docx_proposal(f.doc, oe)
            IN IF content.tag = "raise" \/ Truthy(content) THEN content ELSE None
      [] f.type = "application/pdf" ->
            LET content == extract_text_from_uploaded_pdf_proposal(f.doc, oe)
            IN IF content.tag = "raise" \/ Truthy(content) THEN content ELSE None
      [] OTHER -> None

(***************************************************************************)
(* FastAPI endpoints (src/backend/main.py).  A response is the HTTP code,  *)
(* the "status" field of the JSON body ("none" when the body is FastAPI's  *)
(* {"detail": ...}), the result value, and whether the LLM was invoked.    *)
(***************************************************************************)
Resp(c, st, r, called) == [code |-> c, status |-> st, result |-> r, called |-> called]
NoResponse == Resp(0, "none", None, FALSE)

(* JSON kinds of the ai_analysis_details field of a request body *)
ArgKinds == {"null", "str", "list"}
KindOf(v) ==
    CASE v.tag = "None" -> "null"
      [] v.tag \in {"text", "empty", "error"} -> "str"
      [] OTHER -> "list"

(* raise HTTPException(400) is inside the try whose except Exception      *)
(* turns every exception into HTTPException(500).  The result field of an  *)
(* error answer is what the detail str(e) reports: the exception of the    *)
(* extraction, or None for the handler's own "Failed to process the file". *)
upload_proposal_file(f, oe) ==
    LET text == api_process_uploaded_file_Proposal(f, oe)
    IN CASE text.tag = "raise" -> Resp(500, "none", Raise, FALSE)
         [] text.tag = "None" -> Resp(500, "none", None, FALSE)
         [] OTHER -> Resp(200, "success", text, FALSE)

(* the except branch builds AnalysisResponse without its required field   *)
(* analyze_proposal (it passes analyze_proposal_result=""): the model      *)
(* validation raises inside the handler and the request ends as 500        *)
api_analyze_proposal_components(doc, o) ==
    LET r == analysis_proposal(doc, o)
    IN IF r.tag = "raise" THEN Resp(500, "none", None, TRUE)
       ELSE Resp(200, "success", r, TRUE)

(* analyzePricingRequest: ai_analysis_details is a required str; the      *)
(* handler never passes it on to the client                                *)
analyze_pricing_api(doc, kind, o) ==
    IF kind # "str" THEN Resp(422, "none", None, FALSE)
    ELSE Resp(200, "success", analyze_pricing(doc, o), TRUE)

(* coastAnalysisRequest: ai_analysis_details is Optional[str] = None *)
api_analyze_cost_realism(doc, kind, o) ==
    IF kind = "list" THEN Resp(422, "none", None, FALSE)
    ELSE Resp(200, "success", analyze_cost_realism(doc, o), TRUE)

technical_analysis(doc, kind, o) ==
    IF kind = "list" THEN Resp(422, "none", None, FALSE)
    ELSE Resp(200, "success", technical_analysis_review(doc, o), TRUE)

compliance_analysis(doc, kind, o) ==
    IF kind = "list" THEN Resp(422, "none", None, FALSE)
    ELSE Resp(200, "success", compliance_assessment(doc, o), TRUE)

generate_summary(doc, kind, o) ==
    IF kind = "list" THEN Resp(422, "none", None, FALSE)
    ELSE Resp(200, "success", analysis_proposal_summary(doc, o), TRUE)

(***************************************************************************)
(* HTTP helpers of the frontend (src/frontend/main.py)                     *)
(***************************************************************************)
(* the 2-tuple (result, None) a helper returns for a 200/success body *)
TupleOf(r) ==
    CASE r.tag = "text" -> Val("tuple_ok", r.doc)
      [] r.tag = "empty" -> Val("tuple_empty", r.doc)
      [] OTHER -> Val("tuple_errtext", r.doc)

(* raise_for_status() and every other exception end in `return None` *)
upload_and_extract_text(f, oe) ==
    LET resp == upload_proposal_file(f, oe)
    IN IF resp.code = 200 THEN resp.result ELSE None

analyze_proposal(doc, o) ==
    LET resp == api_analyze_proposal_components(doc, o)
    IN IF resp.code = 200 /\ resp.status = "success"
       THEN [value |-> TupleOf(resp.result), called |-> resp.called]
       ELSE [value |-> Val("tuple_err", 0), called |-> resp.called]

fe_analyze_pricing_api(doc, details, o) ==
    LET resp == analyze_pricing_api(doc, KindOf(details), o)
    IN IF resp.code = 200 /\ resp.status = "success"
       THEN [value |-> TupleOf(resp.result), called |-> resp.called]
       ELSE [value |-> Val("tuple_err", 0), called |-> resp.called]

(***************************************************************************)
(* analyze_proposal_components: the component table and the AI details     *)
(***************************************************************************)
(* app.py: (components, ai_analysis), or (None, None) when the client     *)
(* raised                                                                  *)
analyze_proposal_components(doc, o) ==
    LET ai_analysis == analysis_proposal(doc, o)
    IN IF ai_analysis.tag = "raise"
       THEN [components |-> FALSE, details |-> None]
       ELSE [components |-> TRUE, details |-> ai_analysis]

(* frontend: analyze_proposal never raises, so the table is always        *)
(* returned, with the (result, error) tuple as details                     *)
fe_analyze_proposal_components(doc, o) ==
    [components |-> TRUE, details |-> analyze_proposal(doc, o).value]

(***************************************************************************)
(* State                                                                   *)
(***************************************************************************)
VARIABLES
    variant,        \* which deployment this behaviour is about
    session_state,  \* st.session_state of the Streamlit session
    uploaded_file,  \* document in the step 1 st.file_uploader widget, or NoFile
    llm_calls,      \* stages whose LLM call was made by the last action
    run_status,     \* "ok", or "exception" when the last script run raised
    last_action,    \* name of the last action taken, "none" initially
    request,        \* last request received by the API
    response,       \* last response sent by the API
    queue,          \* requests accepted by the server, waiting for the event loop
    running,        \* the request whose handler the event loop is executing
    flight,         \* the script run blocked in an LLM call, and what the user
                    \* did meanwhile
    results,        \* the `results` dict of run_analyses, in insertion order
    report,         \* the sections of the combined report
    prompt,         \* what the last pricing call put in its LLM prompt
    sessions,       \* the session states the Streamlit server keeps, one per browser session
    selected,       \* the analyses ticked for the last batch run
    create_state    \* session of app.py with the create-proposal keys

vars == <<variant, session_state, uploaded_file, llm_calls, run_status,
          last_action, request, response, queue, running, flight, results, report,
          prompt,
          sessions,
          selected,
          create_state>>

(* no interaction waiting, no result discarded or overtaken *)
NoPending == [kind |-> "none", doc |-> 0]
NoLate == [stage |-> 0, value |-> None, before |-> None]

(* no script run is blocked in an LLM call *)
NoFlight == [stage |-> 0, pending |-> NoPending, late |-> NoLate]

(* no prompt has been built *)
NoPrompt == [given |-> None, text |-> 0, scope |-> None, costing |-> None, manual |-> None]

(* module-level initialisation of st.session_state *)
SessionInit ==
    [mode |-> "with_proposal",
     step |-> 1,
     proposal_text |-> 0,
     proposal_analysis |-> FALSE,
     ai_analysis_details |-> None,
     proposal_summary |-> None,
     current_filename |-> 0,
     price_analysis |-> None,
     cost_realism |-> None,
     technical_analysis |-> None,
     compliance_assessment |-> None]

(* st.session_state of app.py with the keys of the create-proposal mode.   *)
(* rfp_text 0 is "", company_profile NoProfile is the missing key, 0 is "" *)
(* and 1 a non-empty profile; rfp_file is the document held by the         *)
(* uploader of create step 1 (widget state).  The create keys get these    *)
(* defaults when the create branch first runs.                             *)
NoProfile == 0 - 1
CreateSessionInit ==
    [mode |-> "with_proposal",
     step |-> 1,
     proposal_text |-> 0,
     proposal_analysis |-> FALSE,
     ai_analysis_details |-> None,
     proposal_summary |-> None,
     current_filename |-> 0,
     price_analysis |-> None,
     cost_realism |-> None,
     technical_analysis |-> None,
     compliance_assessment |-> None,
     rfp_text |-> 0,
     company_profile |-> NoProfile,
     rfp_breakdown |-> None,
     eligibility_analysis |-> None,
     requirements |-> None,
     tasks |-> None,
     competitive_analysis |-> None,
     innovation_assessment |-> None,
     executive_briefing |-> None,
     proposal |-> None,
     rfp_file |-> NoFile]

NoRequest == [endpoint |-> "none", doc |-> 0, kind |-> "null", type |-> "none"]

(* the event loop is executing no handler *)
NoRun == [req |-> NoRequest, overlap |-> FALSE]

(* two browser sessions connected to one Streamlit server *)
SessionIds == {"a", "b"}

(* a session as the server holds it: its st.session_state, the file in    *)
(* its uploader and the status of its last script run                      *)
NewSession == [s |-> SessionInit, f |-> NoFile, status |-> "ok"]
NoSessions == [actor |-> "none", state |-> [id \in SessionIds |-> NewSession]]

(* reset_process_proposal without its price_analysis line *)
reset_process_proposal_KeepsPrice(s) ==
    [s EXCEPT !.step = 1,
              !.proposal_text = 0,
              !.proposal_analysis = FALSE,
              !.ai_analysis_details = None,
              !.proposal_summary = None,
              !.current_filename = 0,
              !.cost_realism = None,
              !.technical_analysis = None,
              !.compliance_assessment = None]

reset_process_proposal(s) ==
    [s EXCEPT !.step = 1,
              !.proposal_text = 0,
              !.proposal_analysis = FALSE,
              !.ai_analysis_details = None,
              !.proposal_summary = None,
              !.current_filename = 0,
              !.price_analysis = None,
              !.cost_realism = None,
              !.technical_analysis = None,
              !.compliance_assessment = None]

(* sidebar "Analysis Progress": each later truthy slot overrides the      *)
(* earlier ones                                                            *)
current_step(s) ==
    CASE Truthy(s.proposal_summary) -> 7
      [] Truthy(s.compliance_assessment) -> 6
      [] Truthy(s.technical_analysis) -> 5
      [] Truthy(s.cost_realism) -> 4
      [] Truthy(s.price_analysis) -> 3
      [] s.proposal_text # 0 /\ s.proposal_analysis -> 2
      [] OTHER -> 1

(* status_class of step i in the sidebar list *)
StageStatus(s, i) ==
    IF i < current_step(s) THEN "completed"
    ELSE IF i = current_step(s) THEN "current" ELSE "pending"

(***************************************************************************)
(* Script runs.  A run yields the session state it leaves, the stages      *)
(* whose LLM call it made, and whether it ended in an uncaught exception.  *)
(***************************************************************************)
RunOf(s, calls, exc) == [s |-> s, calls |-> calls, exc |-> exc]

(* the upload block with an else branch that drops the component table   *)
(* when the extraction gives no text                                       *)
Step1Upload_ClearsOnNoText(v, s, f, oe, ol) ==
    IF f.doc = NoFile THEN RunOf(s, <<>>, FALSE)
    ELSE LET s1 == [s EXCEPT !.current_filename = f.doc]
             extracted_text == IF v = "frontend"
                               THEN upload_and_extract_text(f, oe)
                               ELSE process_uploaded_file_Proposal(f, oe)
         IN CASE extracted_text.tag = "raise" -> RunOf(s1, <<>>, TRUE)
              [] Truthy(extracted_text) ->
                    LET ca == IF v = "frontend"
                              THEN fe_analyze_proposal_components(extracted_text.doc, ol)
                              ELSE analyze_proposal_components(extracted_text.doc, ol)
                    IN RunOf([s1 EXCEPT !.proposal_text = extracted_text.doc,
                                        !.proposal_analysis = ca.components,
                                        !.ai_analysis_details = ca.details],
                             <<"component_analysis">>, FALSE)
              [] OTHER -> RunOf([s1 EXCEPT !.proposal_analysis = FALSE,
                                           !.ai_analysis_details = None],
                                <<>>, FALSE)

(* step 1: `if uploaded_file is not None:` block *)
Step1Upload(v, s, f, oe, ol) ==
    IF f.doc = NoFile THEN RunOf(s, <<>>, FALSE)
    ELSE LET s1 == [s EXCEPT !.current_filename = f.doc]
             extracted_text == IF v = "frontend"
                               THEN upload_and_extract_text(f, oe)
                               ELSE process_uploaded_file_Proposal(f, oe)
         IN CASE extracted_text.tag = "raise" -> RunOf(s1, <<>>, TRUE)
              [] Truthy(extracted_text) ->
                    LET ca == IF v = "frontend"
                              THEN fe_analyze_proposal_components(extracted_text.doc, ol)
                              ELSE analyze_proposal_components(extracted_text.doc, ol)
                    IN RunOf([s1 EXCEPT !.proposal_text = extracted_text.doc,
                                        !.proposal_analysis = ca.components,
                                        !.ai_analysis_details = ca.details],
                             <<"component_analysis">>, FALSE)
              [] OTHER -> RunOf(s1, <<>>, FALSE)

(* step 2: `if not st.session_state.price_analysis:` block *)
Step2PriceAnalysis(v, s, ol) ==
    IF Truthy(s.price_analysis) THEN RunOf(s, <<>>, FALSE)
    ELSE IF v = "frontend"
         THEN LET r == fe_analyze_pricing_api(s.proposal_text, s.ai_analysis_details, ol)
              IN RunOf([s EXCEPT !.price_analysis = r.value],
                       IF r.called THEN <<"price_analysis">> ELSE <<>>, FALSE)
         ELSE RunOf([s EXCEPT !.price_analysis = analyze_pricing(s.proposal_text, ol)],
                    <<"price_analysis">>, FALSE)

Step3CostRealism(s, ol) ==
    IF Truthy(s.cost_realism) THEN RunOf(s, <<>>, FALSE)
    ELSE RunOf([s EXCEPT !.cost_realism = analyze_cost_realism(s.proposal_text, ol)],
               <<"cost_realism">>, FALSE)

Step4TechnicalAnalysis(s, ol) ==
    IF Truthy(s.technical_analysis) THEN RunOf(s, <<>>, FALSE)
    ELSE RunOf([s EXCEPT !.technical_analysis = technical_analysis_review(s.proposal_text, ol)],
               <<"technical_analysis">>, FALSE)

Step5ComplianceAssessment(s, ol) ==
    IF Truthy(s.compliance_assessment) THEN RunOf(s, <<>>, FALSE)
    ELSE RunOf([s EXCEPT !.compliance_assessment = compliance_assessment(s.proposal_text, ol)],
               <<"compliance_assessment">>, FALSE)

Step6SummaryReport(s, ol) ==
    IF Truthy(s.proposal_summary) THEN RunOf(s, <<>>, FALSE)
    ELSE RunOf([s EXCEPT !.proposal_summary = analysis_proposal_summary(s.proposal_text, ol)],
               <<"proposal_summary">>, FALSE)

(* the `if st.session_state.mode == "with_proposal":` branch of the       *)
(* script: the page of the current step.  The frontend has pages for      *)
(* steps 1 and 2 only.                                                     *)
RenderPage(v, s, f, oe, ol) ==
    CASE s.mode # "with_proposal" -> RunOf(s, <<>>, FALSE)
      [] s.step = 1 -> Step1Upload(v, s, f, oe, ol)
      [] s.step = 2 -> Step2PriceAnalysis(v, s, ol)
      [] s.step = 3 /\ v = "app" -> Step3CostRealism(s, ol)
      [] s.step = 4 /\ v = "app" -> Step4TechnicalAnalysis(s, ol)
      [] s.step = 5 /\ v = "app" -> Step5ComplianceAssessment(s, ol)
      [] s.step = 6 /\ v = "app" -> Step6SummaryReport(s, ol)
      [] OTHER -> RunOf(s, <<>>, FALSE)

(* End of an action.  A widget that a script run does not call loses its  *)
(* state: the uploader keeps its file only while step 1 is the page run.  *)
Finish(r, f) ==
    /\ session_state' = r.s
    /\ llm_calls' = r.calls
    /\ run_status' = IF r.exc THEN "exception" ELSE "ok"
    /\ uploaded_file' = IF r.s.mode = "with_proposal" /\ r.s.step = 1 THEN f ELSE NoFile
    /\ UNCHANGED <<variant, request, response, queue, running, flight, results, report,
                   prompt, sessions, selected, create_state>>

Streamlit == variant \in {"app", "frontend"}
OnPage(k) == Streamlit /\ session_state.mode = "with_proposal" /\ session_state.step = k

(* the runs a script can take from session state s with document d in   *)
(* the uploader, one per outcome of the extraction and of the LLM call.    *)
(* The content type of the file is whatever the user's file has: it only   *)
(* selects the extraction branch, so it is drawn here with the outcomes.   *)
FilesOf(d) ==
    IF d = NoFile THEN {File(NoFile, "none")} ELSE {File(d, t) : t \in UploadTypes}

Step1Runs(v, s, d) ==
    {Step1Upload(v, s, f, oe, ol) :
        f \in FilesOf(d), oe \in ExtOutcomes, ol \in LLMOutcomes}

PageRuns(v, s, d) ==
    {RenderPage(v, s, f, oe, ol) :
        f \in FilesOf(d), oe \in ExtOutcomes, ol \in LLMOutcomes}

(* a navigation that also drops the pricing result *)
GoToStep_DropsPrice(k) ==
    \E r \in PageRuns(variant,
                      [session_state EXCEPT !.step = k, !.price_analysis = None],
                      NoFile) :
        Finish(r, NoFile)

(* a forward navigation that lands one page too far *)
GoToStep_SkipsAPage(k) ==
    \E r \in PageRuns(variant,
                      [session_state EXCEPT
                          !.step = IF k > session_state.step /\ k < 6 THEN k + 1 ELSE k],
                      NoFile) :
        Finish(r, NoFile)

(* st.session_state.step = k; st.rerun() *)
GoToStep(k) ==
    \E r \in PageRuns(variant, [session_state EXCEPT !.step = k], NoFile) :
        Finish(r, NoFile)

(***************************************************************************)
(* Streamlit actions, proposal-analysis mode                               *)
(***************************************************************************)
Init ==
    /\ variant \in Variants
    /\ session_state = SessionInit
    /\ uploaded_file = NoFile
    /\ llm_calls = <<>>
    /\ run_status = "ok"
    /\ last_action = "none"
    /\ request = NoRequest
    /\ response = NoResponse
    /\ queue = <<>>
    /\ running = NoRun
    /\ flight = NoFlight
    /\ results = <<>>
    /\ report = <<>>
    /\ prompt = NoPrompt
    /\ sessions = NoSessions
    /\ selected = {}
    /\ create_state = CreateSessionInit

(* the user puts a file in the uploader of step 1 *)
Upload ==
    /\ last_action' = "Upload"
    /\ OnPage(1)
    /\ \E f \in Docs :
        /\ f # uploaded_file
        /\ \E r \in PageRuns(variant, session_state, f) : Finish(r, f)

(* the user removes the file from the uploader *)
RemoveFile ==
    /\ last_action' = "RemoveFile"
    /\ OnPage(1)
    /\ uploaded_file # NoFile
    /\ \E r \in PageRuns(variant, session_state, NoFile) : Finish(r, NoFile)

(* the user edits the "Additional components" text area: a script run     *)
(* with no handler                                                         *)
EditExtraComponent ==
    /\ last_action' = "EditExtraComponent"
    /\ OnPage(1)
    /\ run_status = "ok"
    /\ \E r \in PageRuns(variant, session_state, uploaded_file) :
        Finish(r, uploaded_file)

(* "Proceed to Price Analysis": the run that reports the click first      *)
(* executes the upload block again, and reaches the button only when       *)
(* proposal_analysis is still truthy                                       *)
ProceedToPriceAnalysis ==
    /\ last_action' = "ProceedToPriceAnalysis"
    /\ OnPage(1)
    /\ run_status = "ok"
    /\ session_state.proposal_analysis
    /\ \E r1 \in Step1Runs(variant, session_state, uploaded_file) :
        IF r1.exc \/ ~r1.s.proposal_analysis
        THEN Finish(r1, uploaded_file)
        ELSE \E r2 \in PageRuns(variant, [r1.s EXCEPT !.step = 2], NoFile) :
                Finish(RunOf(r2.s, r1.calls \o r2.calls, r2.exc), NoFile)

(* "Analyze Proposal Components": offered when there is a text and no     *)
(* component table                                                         *)
AnalyzeProposalComponents ==
    /\ last_action' = "AnalyzeProposalComponents"
    /\ OnPage(1)
    /\ run_status = "ok"
    /\ ~session_state.proposal_analysis
    /\ session_state.proposal_text # 0
    /\ \E r1 \in Step1Runs(variant, session_state, uploaded_file) :
        IF r1.exc \/ r1.s.proposal_analysis \/ r1.s.proposal_text = 0
        THEN Finish(r1, uploaded_file)
        ELSE \E ol \in LLMOutcomes :
                LET ca == IF variant = "frontend"
                          THEN fe_analyze_proposal_components(r1.s.proposal_text, ol)
                          ELSE analyze_proposal_components(r1.s.proposal_text, ol)
                    s2 == [r1.s EXCEPT !.proposal_analysis = ca.components,
                                       !.ai_analysis_details = ca.details]
                IN \E r3 \in PageRuns(variant, s2, uploaded_file) :
                     Finish(RunOf(r3.s, r1.calls \o <<"component_analysis">> \o r3.calls,
                                  r3.exc),
                            uploaded_file)

BackToComponentAnalysis ==
    /\ last_action' = "BackToComponentAnalysis"
    /\ OnPage(2)
    /\ Truthy(session_state.price_analysis)
    /\ GoToStep(1)

ProceedToCostRealism ==
    /\ last_action' = "ProceedToCostRealism"
    /\ OnPage(2)
    /\ Truthy(session_state.price_analysis)
    /\ GoToStep(3)

BackToPriceAnalysis ==
    /\ last_action' = "BackToPriceAnalysis"
    /\ OnPage(3) /\ variant = "app"
    /\ Truthy(session_state.cost_realism)
    /\ GoToStep(2)

ProceedToTechnicalAnalysis ==
    /\ last_action' = "ProceedToTechnicalAnalysis"
    /\ OnPage(3) /\ variant = "app"
    /\ Truthy(session_state.cost_realism)
    /\ GoToStep(4)

BackToCostRealism ==
    /\ last_action' = "BackToCostRealism"
    /\ OnPage(4) /\ variant = "app"
    /\ Truthy(session_state.technical_analysis)
    /\ GoToStep(3)

ProceedToComplianceAssessment ==
    /\ last_action' = "ProceedToComplianceAssessment"
    /\ OnPage(4) /\ variant = "app"
    /\ Truthy(session_state.technical_analysis)
    /\ GoToStep(5)

BackToTechnicalAnalysis ==
    /\ last_action' = "BackToTechnicalAnalysis"
    /\ OnPage(5) /\ variant = "app"
    /\ Truthy(session_state.compliance_assessment)
    /\ GoToStep(4)

GenerateSummaryReport ==
    /\ last_action' = "GenerateSummaryReport"
    /\ OnPage(5) /\ variant = "app"
    /\ Truthy(session_state.compliance_assessment)
    /\ GoToStep(6)

(* step 6 download button: a click starts a script run with no handler,   *)
(* which renders step 6 again                                              *)
DownloadSummaryReport ==
    /\ last_action' = "DownloadSummaryReport"
    /\ OnPage(6) /\ variant = "app"
    /\ \E r \in PageRuns(variant, session_state, NoFile) : Finish(r, NoFile)

(* sidebar button "Reset Analysis": reset_process_proposal(); st.rerun() *)
ResetAnalysis ==
    /\ last_action' = "ResetAnalysis"
    /\ Streamlit
    /\ session_state.mode = "with_proposal"
    /\ \E r \in PageRuns(variant, reset_process_proposal(session_state), NoFile) :
        Finish(r, NoFile)

(* header button "Create Proposal" *)
CreateProposal ==
    /\ last_action' = "CreateProposal"
    /\ Streamlit
    /\ session_state.mode = "with_proposal"
    /\ \E r \in PageRuns(variant,
                         reset_process_proposal([session_state EXCEPT !.mode = "create_proposal"]),
                         NoFile) :
        Finish(r, NoFile)

(* header button "Go To Main Page" *)
GoToMainPage ==
    /\ last_action' = "GoToMainPage"
    /\ Streamlit
    /\ session_state.mode = "create_proposal"
    /\ \E r \in PageRuns(variant,
                         reset_process_proposal([session_state EXCEPT !.mode = "with_proposal"]),
                         NoFile) :
        Finish(r, NoFile)

(***************************************************************************)
(* API actions: one HTTP request to an endpoint of src/backend/main.py     *)
(***************************************************************************)
Answer(endpoint, stage, doc, kind, type, resp) ==
    /\ variant = "api"
    /\ request' = [endpoint |-> endpoint, doc |-> doc, kind |-> kind, type |-> type]
    /\ response' = resp
    /\ llm_calls' = IF resp.called THEN <<stage>> ELSE <<>>
    /\ UNCHANGED <<variant, session_state, uploaded_file, run_status, queue, running,
                   flight, results, report, prompt, sessions,
                   selected, create_state>>

PostUploadProposal ==
    /\ last_action' = "PostUploadProposal"
    /\ \E d \in Docs, t \in ContentTypes, oe \in ExtOutcomes :
        Answer("/upload/proposal", "extract", d, "null", t,
               upload_proposal_file(File(d, t), oe))

PostAnalyzeProposalComponents ==
    /\ last_action' = "PostAnalyzeProposalComponents"
    /\ \E d \in Docs, o \in LLMOutcomes :
        Answer("/analyze_proposal_components", "component_analysis", d, "null", "none",
               api_analyze_proposal_components(d, o))

PostAnalyzePricing ==
    /\ last_action' = "PostAnalyzePricing"
    /\ \E d \in Docs, k \in ArgKinds, o \in LLMOutcomes :
        Answer("/analyze/pricing", "price_analysis", d, k, "none",
               analyze_pricing_api(d, k, o))

PostAnalyzeCostRealism ==
    /\ last_action' = "PostAnalyzeCostRealism"
    /\ \E d \in Docs, k \in ArgKinds, o \in LLMOutcomes :
        Answer("/analyze/cost-realism", "cost_realism", d, k, "none",
               api_analyze_cost_realism(d, k, o))

PostAnalyzeTechnical ==
    /\ last_action' = "PostAnalyzeTechnical"
    /\ \E d \in Docs, k \in ArgKinds, o \in LLMOutcomes :
        Answer("/analyze/technical", "technical_analysis", d, k, "none",
               technical_analysis(d, k, o))

PostAnalyzeCompliance ==
    /\ last_action' = "PostAnalyzeCompliance"
    /\ \E d \in Docs, k \in ArgKinds, o \in LLMOutcomes :
        Answer("/analyze/compliance", "compliance_assessment", d, k, "none",
               compliance_analysis(d, k, o))

PostGenerateSummary ==
    /\ last_action' = "PostGenerateSummary"
    /\ \E d \in Docs, k \in ArgKinds, o \in LLMOutcomes :
        Answer("/generate/summary", "proposal_summary", d, k, "none",
               generate_summary(d, k, o))

Next ==
    \/ Upload
    \/ RemoveFile
    \/ EditExtraComponent
    \/ ProceedToPriceAnalysis
    \/ AnalyzeProposalComponents
    \/ BackToComponentAnalysis
    \/ ProceedToCostRealism
    \/ BackToPriceAnalysis
    \/ ProceedToTechnicalAnalysis
    \/ BackToCostRealism
    \/ ProceedToComplianceAssessment
    \/ BackToTechnicalAnalysis
    \/ GenerateSummaryReport
    \/ DownloadSummaryReport
    \/ ResetAnalysis
    \/ CreateProposal
    \/ GoToMainPage
    \/ PostUploadProposal
    \/ PostAnalyzeProposalComponents
    \/ PostAnalyzePricing
    \/ PostAnalyzeCostRealism
    \/ PostAnalyzeTechnical
    \/ PostAnalyzeCompliance
    \/ PostGenerateSummary

Spec == Init /\ [][Next]_vars

(***************************************************************************)
(* The server of src/backend/main.py under overlapping requests.  uvicorn  *)
(* runs the app on one event loop.  A stage handler awaits a GeminiClient  *)
(* coroutine whose body calls the synchronous model.generate_content, so   *)
(* the handler never yields: the loop takes the next request only when the *)
(* handler has returned.  A request records whether a handler was being    *)
(* executed when it arrived.                                               *)
(***************************************************************************)
MaxQueue == 2

StageEndpoints == {"/analyze/pricing", "/analyze/cost-realism", "/analyze/technical",
                   "/analyze/compliance", "/generate/summary"}

(* the stage requests of one client about its document *)
StageRequests ==
    {[endpoint |-> e, doc |-> d, kind |-> "str", type |-> "none"] :
        e \in StageEndpoints, d \in {MaxDocs}}

(* the route table *)
Handle(req, o) ==
    CASE req.endpoint = "/analyze/pricing" -> analyze_pricing_api(req.doc, req.kind, o)
      [] req.endpoint = "/analyze/cost-realism" -> api_analyze_cost_realism(req.doc, req.kind, o)
      [] req.endpoint = "/analyze/technical" -> technical_analysis(req.doc, req.kind, o)
      [] req.endpoint = "/analyze/compliance" -> compliance_analysis(req.doc, req.kind, o)
      [] OTHER -> generate_summary(req.doc, req.kind, o)

StageOfEndpoint(e) ==
    CASE e = "/analyze/pricing" -> "price_analysis"
      [] e = "/analyze/cost-realism" -> "cost_realism"
      [] e = "/analyze/technical" -> "technical_analysis"
      [] e = "/analyze/compliance" -> "compliance_assessment"
      [] OTHER -> "proposal_summary"

ServerInit ==
    /\ Init
    /\ variant = "api"

(* a client sends a stage request; the server accepts the connection *)
ReceiveRequest ==
    /\ last_action' = "ReceiveRequest"
    /\ Len(queue) < MaxQueue
    /\ \E req \in StageRequests :
         queue' = Append(queue, [req |-> req, overlap |-> running # NoRun])
    /\ UNCHANGED <<variant, session_state, uploaded_file, llm_calls, run_status,
                   request, response, running, flight, results, report,
                   prompt, sessions, selected, create_state>>

(* the event loop, idle, starts the handler of the oldest request *)
BeginHandler ==
    /\ last_action' = "BeginHandler"
    /\ running = NoRun
    /\ queue # <<>>
    /\ running' = Head(queue)
    /\ queue' = Tail(queue)
    /\ UNCHANGED <<variant, session_state, uploaded_file, llm_calls, run_status,
                   request, response, flight, results, report,
                   prompt, sessions, selected, create_state>>

(* the handler returns its response *)
CompleteHandler ==
    /\ last_action' = "CompleteHandler"
    /\ running # NoRun
    /\ \E o \in LLMOutcomes :
         LET resp == Handle(running.req, o)
         IN /\ response' = resp
            /\ llm_calls' = IF resp.called
                            THEN <<StageOfEndpoint(running.req.endpoint)>> ELSE <<>>
    /\ request' = running.req
    /\ running' = NoRun
    /\ UNCHANGED <<variant, session_state, uploaded_file, run_status, queue, flight,
                   results, report, prompt, sessions, selected,
                   create_state>>

ServerNext ==
    \/ ReceiveRequest
    \/ BeginHandler
    \/ CompleteHandler

ServerSpec == ServerInit /\ [][ServerNext]_vars

TypeOK ==
    /\ variant \in Variants
    /\ session_state.step \in 1..6
    /\ session_state.proposal_text \in 0..MaxDocs
    /\ uploaded_file \in Docs \cup {NoFile}
    /\ run_status \in {"ok", "exception"}

(***************************************************************************)
(* Stages and their result slots                                           *)
(***************************************************************************)
(* the result slot that page i fills *)
ResultSlot(s, i) ==
    CASE i = 1 -> s.ai_analysis_details
      [] i = 2 -> s.price_analysis
      [] i = 3 -> s.cost_realism
      [] i = 4 -> s.technical_analysis
      [] i = 5 -> s.compliance_assessment
      [] OTHER -> s.proposal_summary

(* values that record a failed stage: the "Error in ..." string of a      *)
(* GeminiClient except branch, alone or inside a frontend tuple, and the   *)
(* frontend's (None, error)                                                *)
FailedTags == {"error", "tuple_errtext", "tuple_err"}

Calls == {llm_calls[i] : i \in 1..Len(llm_calls)}

(* component analysis has completed successfully: for a session, the      *)
(* table is there and the details are an LLM output; for a request to the  *)
(* API, the component-analysis output came with it                         *)
ComponentAnalysisCompleted ==
    IF variant = "api" THEN request.kind = "str"
    ELSE /\ session_state.proposal_analysis
         /\ session_state.ai_analysis_details.tag \in {"text", "tuple_ok"}

(* C1: pricing and cost realism are never sent to the LLM while component *)
(* analysis has not completed successfully.                                *)
C1_PrerequisiteGate ==
    (Calls \cap {"price_analysis", "cost_realism"} # {}) => ComponentAnalysisCompleted

(* C2: once a document is set, no stage result computed from an earlier   *)
(* document remains complete in the session.                               *)
C2_InvalidationOnSecondDocument ==
    (Streamlit /\ session_state.proposal_text # 0) =>
        \A i \in 1..6 :
            ResultSlot(session_state, i).tag \in {"text", "tuple_ok"} =>
                ResultSlot(session_state, i).doc = session_state.proposal_text

(* position of the last call of a stage among the LLM calls of a run *)
LastCall(calls, stage) ==
    IF \E i \in 1..Len(calls) : calls[i] = stage
    THEN CHOOSE i \in 1..Len(calls) :
            /\ calls[i] = stage
            /\ \A j \in (i + 1)..Len(calls) : calls[j] # stage
    ELSE 0

(* C3: when component analysis is run again, every stage that depends on  *)
(* it (pricing, cost realism, summary) is complete afterwards only if it   *)
(* was computed again after it.                                            *)
C3_CascadeOnRerun ==
    (variant = "app" /\ "component_analysis" \in Calls) =>
        /\ Truthy(session_state.price_analysis) =>
             LastCall(llm_calls, "price_analysis") > LastCall(llm_calls, "component_analysis")
        /\ Truthy(session_state.cost_realism) =>
             LastCall(llm_calls, "cost_realism") > LastCall(llm_calls, "component_analysis")
        /\ Truthy(session_state.proposal_summary) =>
             LastCall(llm_calls, "proposal_summary") > LastCall(llm_calls, "component_analysis")

BackActions == {"BackToComponentAnalysis", "BackToPriceAnalysis",
                "BackToCostRealism", "BackToTechnicalAnalysis"}

(* C4: a Back navigation moves the step pointer to an earlier step and    *)
(* changes nothing else: the document text and every result slot are what  *)
(* they were before, and no LLM call is made.                              *)
C4_RetreatFrame ==
    [][last_action' \in BackActions =>
          /\ session_state'.step < session_state.step
          /\ session_state' = [session_state EXCEPT !.step = session_state'.step]
          /\ llm_calls' = <<>>]_vars

(* a Back navigation has been taken from a step whose result, and the     *)
(* results before it, are in the session                                   *)
C4_Witness ==
    /\ last_action = "BackToPriceAnalysis"
    /\ session_state.step = 2
    /\ session_state.proposal_text # 0
    /\ Truthy(session_state.price_analysis)
    /\ Truthy(session_state.cost_realism)

(* C5: a stage whose LLM call failed is not Completed: its slot is not    *)
(* treated as a result and the sidebar does not show it as completed.      *)
C5_FailedStageNotCompleted ==
    Streamlit =>
        \A i \in 1..6 :
            ResultSlot(session_state, i).tag \in FailedTags =>
                /\ ~Truthy(ResultSlot(session_state, i))
                /\ StageStatus(session_state, i) # "completed"

(* C6: the step pointer never advances past a stage whose last run failed *)
C6_NoAdvancePastFailedStage ==
    [][session_state'.step > session_state.step =>
          ResultSlot(session_state', session_state.step).tag \notin FailedTags]_vars

Retreat ==
    \/ BackToComponentAnalysis
    \/ BackToPriceAnalysis
    \/ BackToCostRealism
    \/ BackToTechnicalAnalysis

(* C7: whenever the step pointer is past the first step, a Back           *)
(* navigation is enabled.                                                  *)
C7_RetreatAlwaysEnabled ==
    (Streamlit /\ session_state.mode = "with_proposal" /\ session_state.step > 1) =>
        ENABLED Retreat

(* Idle: no document text, no result of any stage, pointer at step 1 *)
Idle(s) ==
    /\ s.step = 1
    /\ s.proposal_text = 0
    /\ ~s.proposal_analysis
    /\ \A i \in 1..6 : ResultSlot(s, i) = None

(* C8: after Reset Analysis the session is Idle. *)
C8_ResetIsIdle ==
    last_action = "ResetAnalysis" => Idle(session_state)

(* Reset Analysis has been the last action *)
C8_Witness ==
    /\ last_action = "ResetAnalysis"
    /\ session_state.mode = "with_proposal"
    /\ uploaded_file = NoFile

(* interactions that only display the page again: no handler runs *)
DisplayActions == {"EditExtraComponent", "DownloadSummaryReport", "RemoveFile"}

(* C9: displaying the page again, when the display runs no stage and the  *)
(* document does not change, leaves the status of every stage unchanged.   *)
C9_StatusReadIdempotent ==
    [][(/\ last_action' \in DisplayActions
        /\ llm_calls' = <<>>
        /\ session_state'.proposal_text = session_state.proposal_text) =>
          \A i \in 1..6 :
              StageStatus(session_state', i) = StageStatus(session_state, i)]_vars

(* the page was displayed again with component analysis completed, no     *)
(* stage was run, and step 1 still shows as completed                      *)
C9_Witness ==
    /\ last_action = "EditExtraComponent"
    /\ llm_calls = <<>>
    /\ uploaded_file # NoFile
    /\ StageStatus(session_state, 1) = "completed"

(* C10: a failed extraction or LLM call never ends a script run in an     *)
(* uncaught exception, nor a request in a server error.                    *)
C10_FailuresAreTyped ==
    /\ run_status = "ok"
    /\ response.code < 500

(* C11: an upload whose extraction raises or yields no text leaves the    *)
(* session state as it was: text, filename and every result unchanged.     *)
C11_FailedUploadChangesNothing ==
    [][(/\ last_action' = "Upload"
        /\ "component_analysis" \notin {llm_calls'[i] : i \in 1..Len(llm_calls')}) =>
          session_state' = session_state]_vars

(* C12: an upload whose content type is not text/plain, PDF or DOCX is    *)
(* answered with a client-side rejection (a 4xx status), not with the      *)
(* server error that reports a failed extraction.                          *)
C12_UnsupportedTypeRejected ==
    (/\ variant = "api"
     /\ request.endpoint = "/upload/proposal"
     /\ request.type \notin UploadTypes) =>
        response.code \in 400..499

(* the steps for which the script of variant v renders a page in mode m:  *)
(* app.py has pages 1..6 of the proposal analysis and 1..9 of proposal     *)
(* creation; in the frontend only the pages of steps 1 and 2 are code, the *)
(* other pages and the whole create mode are commented out                 *)
PageSteps(v, m) ==
    CASE v = "app" /\ m = "with_proposal" -> 1..6
      [] v = "app" /\ m = "create_proposal" -> 1..9
      [] v = "frontend" /\ m = "with_proposal" -> 1..2
      [] OTHER -> {}

(* C28: the step pointer always designates a stage that has a page: in    *)
(* proposal-analysis mode the page of the step pointer is rendered by the  *)
(* running script.                                                         *)
C28_StepHasPage ==
    (Streamlit /\ session_state.mode = "with_proposal") =>
        session_state.step \in PageSteps(variant, session_state.mode)

(* C30: an upload from which no text could be extracted (the extraction    *)
(* raised nothing and returned no text) is answered with HTTP 400; status  *)
(* 500 is only the answer to an extraction that raised an exception.       *)
C30_NoTextAnswered400 ==
    (/\ variant = "api"
     /\ request.endpoint = "/upload/proposal"
     /\ response.code # 200
     /\ response.result = None) =>
        response.code = 400

(* the name under which the LLM call of the stage of page i is recorded *)
StageCall(i) ==
    CASE i = 1 -> "component_analysis"
      [] i = 2 -> "price_analysis"
      [] i = 3 -> "cost_realism"
      [] i = 4 -> "technical_analysis"
      [] i = 5 -> "compliance_assessment"
      [] OTHER -> "proposal_summary"

(* the result of the stage of page i is cached in the session *)
Cached(s, i) == IF i = 1 THEN s.proposal_analysis ELSE Truthy(ResultSlot(s, i))

(* interactions that neither run a stage nor change the document *)
NavigationActions ==
    BackActions \cup DisplayActions \cup
    {"ProceedToPriceAnalysis", "ProceedToCostRealism", "ProceedToTechnicalAnalysis",
     "ProceedToComplianceAssessment", "GenerateSummaryReport"}

(* C13: navigation and re-rendering never invoke the LLM for a stage      *)
(* whose result is cached.                                                 *)
C13_NoCallForCachedStage ==
    [][last_action' \in NavigationActions =>
          \A i \in 1..6 :
              Cached(session_state, i) =>
                  \A j \in 1..Len(llm_calls') : llm_calls'[j] # StageCall(i)]_vars

(* the stages whose output the LLM call of the stage of page k is given:  *)
(* analyze_pricing and analyze_cost_realism take ai_analysis_details, the  *)
(* technical and compliance reviews take the proposal text only, and the   *)
(* summary takes whatever is there                                         *)
Prerequisites(k) == IF k \in {2, 3} THEN {1} ELSE {}

(* the stage of page i has a result, and it is not a failure *)
Completed(s, i) == Cached(s, i) /\ ResultSlot(s, i).tag \notin FailedTags

(* C14: the step pointer advances to a stage only when a document is set  *)
(* and the outputs that the stage consumes are Completed.                  *)
C14_AdvanceOnlyWhenPrerequisitesMet ==
    [][session_state'.step > session_state.step =>
          /\ session_state'.proposal_text # 0
          /\ \A i \in Prerequisites(session_state'.step) :
                Completed(session_state', i)]_vars

(* the run of the stage of page k has completed in this session: the      *)
(* component table is there, or the slot holds what the call returned      *)
(* (a text, the empty text or an error message)                            *)
Ran(s, k) == IF k = 1 THEN s.proposal_analysis ELSE ResultSlot(s, k) # None

(* C15: the LLM call of stage k+1 is made only after the run of stage k   *)
(* has completed, with success or with failure.                            *)
C15_StagesRunInOrder ==
    Streamlit =>
        \A k \in 1..5 :
            StageCall(k + 1) \in Calls => Ran(session_state, k)

(* cost realism was sent to the LLM after pricing had completed with a    *)
(* failure                                                                 *)
C15_Witness ==
    /\ variant = "app"
    /\ "cost_realism" \in Calls
    /\ session_state.price_analysis.tag = "error"
    /\ session_state.step = 3

(***************************************************************************)
(* A Streamlit session whose script run is blocked in an LLM call.  The    *)
(* session has one script thread.  What the user does while the thread is  *)
(* inside the call is noted by the runtime and handled when the thread     *)
(* reaches its next st.* command: the run is abandoned there and a new run *)
(* executes the interaction.  Statements between the return of the call    *)
(* and that command are executed.                                          *)
(***************************************************************************)
(* the upload block up to the call of analyze_proposal_components *)
StartUpload(v, s, f, oe) ==
    LET s1 == [s EXCEPT !.current_filename = f.doc]
        extracted_text == IF v = "frontend"
                          THEN upload_and_extract_text(f, oe)
                          ELSE process_uploaded_file_Proposal(f, oe)
    IN CASE extracted_text.tag = "raise" -> [s |-> s1, exc |-> TRUE, stage |-> 0]
         [] Truthy(extracted_text) ->
               [s |-> [s1 EXCEPT !.proposal_text = extracted_text.doc],
                exc |-> FALSE, stage |-> 1]
         [] OTHER -> [s |-> s1, exc |-> FALSE, stage |-> 0]

(* what the call of page k returns for the slot of the page *)
LateValue(v, s, k, ol) ==
    IF k = 1
    THEN (IF v = "frontend"
          THEN fe_analyze_proposal_components(s.proposal_text, ol)
          ELSE analyze_proposal_components(s.proposal_text, ol)).details
    ELSE ResultSlot(RenderPage(v, s, File(NoFile, "none"), "nothing", ol).s, k)

(* step 1 with the assignments inside the spinner block *)
AfterCall_AssignsInsideSpinner(v, s, k, ol, interrupted) ==
    IF k = 1
    THEN LET ca == IF v = "frontend"
                   THEN fe_analyze_proposal_components(s.proposal_text, ol)
                   ELSE analyze_proposal_components(s.proposal_text, ol)
         IN [s EXCEPT !.proposal_analysis = ca.components,
                      !.ai_analysis_details = ca.details]
    ELSE RenderPage(v, s, File(NoFile, "none"), "nothing", ol).s

(* the session state when the run stops.  Step 1 assigns the result after *)
(* the `with st.spinner` block around the call has been left, so an        *)
(* interrupted run does not get there; the other pages assign it inside    *)
(* the block, before the next st.* command.                                *)
AfterCall(v, s, k, ol, interrupted) ==
    IF k = 1
    THEN IF interrupted THEN s
         ELSE LET ca == IF v = "frontend"
                        THEN fe_analyze_proposal_components(s.proposal_text, ol)
                        ELSE analyze_proposal_components(s.proposal_text, ol)
              IN [s EXCEPT !.proposal_analysis = ca.components,
                           !.ai_analysis_details = ca.details]
    ELSE RenderPage(v, s, File(NoFile, "none"), "nothing", ol).s

FlightIdle == flight.stage = 0 /\ flight.pending = NoPending

(* the script reaches page k: its stage is called unless its slot is      *)
(* truthy                                                                  *)
Arrive(s, k) ==
    /\ session_state' = [s EXCEPT !.step = k]
    /\ uploaded_file' = NoFile
    /\ run_status' = "ok"
    /\ llm_calls' = <<>>
    /\ flight' = IF k = 1 \/ Truthy(ResultSlot(s, k))
                 THEN NoFlight
                 ELSE [stage |-> k, pending |-> NoPending, late |-> NoLate]

FlightInit ==
    /\ Init
    /\ Streamlit

(* the user clicks "Reset Analysis" in the sidebar *)
ClickReset ==
    /\ last_action' = "ClickReset"
    /\ session_state.mode = "with_proposal"
    /\ flight.pending = NoPending
    /\ flight' = [flight EXCEPT !.pending = [kind |-> "reset", doc |-> 0], !.late = NoLate]
    /\ UNCHANGED <<variant, session_state, uploaded_file, llm_calls, run_status,
                   request, response, queue, running, results, report,
                   prompt, sessions, selected, create_state>>

(* the user puts another file in the uploader of step 1 *)
ChooseFile ==
    /\ last_action' = "ChooseFile"
    /\ OnPage(1)
    /\ flight.pending = NoPending
    /\ \E d \in Docs :
         /\ d # uploaded_file
         /\ flight' = [flight EXCEPT !.pending = [kind |-> "upload", doc |-> d],
                                     !.late = NoLate]
    /\ UNCHANGED <<variant, session_state, uploaded_file, llm_calls, run_status,
                   request, response, queue, running, results, report,
                   prompt, sessions, selected, create_state>>

(* the LLM call returns and the run goes on to its next st.* command *)
CallReturns ==
    /\ last_action' = "CallReturns"
    /\ flight.stage # 0
    /\ \E ol \in LLMOutcomes :
         LET k == flight.stage
             interrupted == flight.pending # NoPending
         IN /\ session_state' = AfterCall(variant, session_state, k, ol, interrupted)
            /\ flight' = [stage |-> 0,
                          pending |-> flight.pending,
                          late |-> IF interrupted
                                   THEN [stage |-> k,
                                         value |-> LateValue(variant, session_state, k, ol),
                                         before |-> ResultSlot(session_state, k)]
                                   ELSE NoLate]
            /\ llm_calls' = <<StageCall(k)>>
    /\ run_status' = "ok"
    /\ UNCHANGED <<variant, uploaded_file, request, response, queue, running,
                   results, report, prompt, sessions, selected,
                   create_state>>

(* the run that executes the interaction the user made *)
HandleInteraction ==
    /\ last_action' = "HandleInteraction"
    /\ flight.stage = 0
    /\ flight.pending # NoPending
    /\ llm_calls' = <<>>
    /\ IF flight.pending.kind = "reset"
       THEN /\ session_state' = reset_process_proposal(session_state)
            /\ uploaded_file' = NoFile
            /\ run_status' = "ok"
            /\ flight' = [stage |-> 0, pending |-> NoPending, late |-> flight.late]
       ELSE \E f \in FilesOf(flight.pending.doc), oe \in ExtOutcomes :
              LET r == StartUpload(variant, session_state, f, oe)
              IN /\ session_state' = r.s
                 /\ uploaded_file' = f.doc
                 /\ run_status' = IF r.exc THEN "exception" ELSE "ok"
                 /\ flight' = [stage |-> r.stage, pending |-> NoPending,
                               late |-> flight.late]
    /\ UNCHANGED <<variant, request, response, queue, running, results, report,
                   prompt, sessions, selected, create_state>>

(* a "Proceed to ..." button *)
GoForward ==
    /\ last_action' = "GoForward"
    /\ FlightIdle
    /\ run_status = "ok"
    /\ session_state.mode = "with_proposal"
    /\ session_state.step < (IF variant = "frontend" THEN 2 ELSE 6)
    /\ IF session_state.step = 1
       THEN /\ session_state.proposal_analysis
            /\ \E r1 \in Step1Runs(variant, session_state, uploaded_file) :
                 IF r1.exc \/ ~r1.s.proposal_analysis
                 THEN /\ session_state' = r1.s
                      /\ llm_calls' = r1.calls
                      /\ run_status' = IF r1.exc THEN "exception" ELSE "ok"
                      /\ UNCHANGED <<uploaded_file, flight>>
                 ELSE Arrive(r1.s, 2)
       ELSE /\ Truthy(ResultSlot(session_state, session_state.step))
            /\ Arrive(session_state, session_state.step + 1)
    /\ UNCHANGED <<variant, request, response, queue, running, results, report,
                   prompt, sessions, selected, create_state>>

(* a "Back to ..." button *)
GoBack ==
    /\ last_action' = "GoBack"
    /\ FlightIdle
    /\ session_state.mode = "with_proposal"
    /\ session_state.step \in 2..5
    /\ Truthy(ResultSlot(session_state, session_state.step))
    /\ Arrive(session_state, session_state.step - 1)
    /\ UNCHANGED <<variant, request, response, queue, running, results, report,
                   prompt, sessions, selected, create_state>>

FlightNext ==
    \/ ClickReset
    \/ ChooseFile
    \/ CallReturns
    \/ HandleInteraction
    \/ GoForward
    \/ GoBack

FlightSpec == FlightInit /\ [][FlightNext]_vars

AnalysisKeys == <<"component_analysis", "price_analysis", "cost_realism",
                  "technical_analysis", "compliance_assessment">>

KeySet == {AnalysisKeys[i] : i \in 1..Len(AnalysisKeys)}

(* results[key] = ... inside try; an exception leaves the dict as it was *)
Entry(key, value) ==
    IF value.tag = "raise" THEN <<>> ELSE <<[key |-> key, value |-> value]>>

(* run_analyses with the technical analysis run before the pricing *)
run_analyses_TechnicalBeforePricing(doc, sel, oc) ==
    LET c == IF "component_analysis" \in sel
             THEN Entry("component_analysis",
                        analysis_proposal(doc, oc["component_analysis"]))
             ELSE <<>>
        p == IF "price_analysis" \in sel /\ c # <<>>
             THEN Entry("price_analysis", analyze_pricing(doc, oc["price_analysis"]))
             ELSE <<>>
        r == IF "cost_realism" \in sel /\ c # <<>>
             THEN Entry("cost_realism", analyze_cost_realism(doc, oc["cost_realism"]))
             ELSE <<>>
        t == IF "technical_analysis" \in sel
             THEN Entry("technical_analysis",
                        technical_analysis_review(doc, oc["technical_analysis"]))
             ELSE <<>>
        a == IF "compliance_assessment" \in sel
             THEN Entry("compliance_assessment",
                        compliance_assessment(doc, oc["compliance_assessment"]))
             ELSE <<>>
    IN c \o t \o p \o r \o a

(* the dict after the five `if run_...:` blocks, as the sequence of its   *)
(* items                                                                   *)
run_analyses(doc, sel, oc) ==
    LET c == IF "component_analysis" \in sel
             THEN Entry("component_analysis",
                        analysis_proposal(doc, oc["component_analysis"]))
             ELSE <<>>
        p == IF "price_analysis" \in sel /\ c # <<>>
             THEN Entry("price_analysis", analyze_pricing(doc, oc["price_analysis"]))
             ELSE <<>>
        r == IF "cost_realism" \in sel /\ c # <<>>
             THEN Entry("cost_realism", analyze_cost_realism(doc, oc["cost_realism"]))
             ELSE <<>>
        t == IF "technical_analysis" \in sel
             THEN Entry("technical_analysis",
                        technical_analysis_review(doc, oc["technical_analysis"]))
             ELSE <<>>
        a == IF "compliance_assessment" \in sel
             THEN Entry("compliance_assessment",
                        compliance_assessment(doc, oc["compliance_assessment"]))
             ELSE <<>>
    IN c \o p \o r \o t \o a

(* analysis_type.replace('_', ' ').title() *)
Title(key) ==
    CASE key = "component_analysis" -> "Component Analysis"
      [] key = "price_analysis" -> "Price Analysis"
      [] key = "cost_realism" -> "Cost Realism"
      [] key = "technical_analysis" -> "Technical Analysis"
      [] OTHER -> "Compliance Assessment"

(* for analysis_type, result in results.items(): one "## title" section *)
download_all_results(res) ==
    [i \in 1..Len(res) |-> [label |-> Title(res[i].key), body |-> res[i].value]]

ReportInit ==
    /\ Init
    /\ variant = "app"

(* the LLM calls of run_analyses and of display_results, in order, with   *)
(* a return out of the first except block                                  *)
run_analyses_calls_StopsAtFailure(doc, sel, oc) ==
    LET failed(k) == oc[k] = "fail"
        c == IF "component_analysis" \in sel THEN <<"component_analysis">> ELSE <<>>
        p == IF "price_analysis" \in sel /\ c # <<>> /\ ~failed("component_analysis")
             THEN <<"price_analysis">> ELSE <<>>
        r == IF "cost_realism" \in sel /\ c # <<>> /\ ~failed("component_analysis")
             THEN <<"cost_realism">> ELSE <<>>
        t == IF "technical_analysis" \in sel /\ (c = <<>> \/ ~failed("component_analysis"))
             THEN <<"technical_analysis">> ELSE <<>>
        a == IF "compliance_assessment" \in sel
                /\ (c = <<>> \/ ~failed("component_analysis"))
             THEN <<"compliance_assessment">> ELSE <<>>
        y == IF "executive_summary" \in sel /\ run_analyses(doc, sel, oc) # <<>>
             THEN <<"proposal_summary">> ELSE <<>>
    IN c \o p \o r \o t \o a \o y

(* the LLM calls of run_analyses and of display_results, in order *)
run_analyses_calls(doc, sel, oc) ==
    LET in_results(k) == \E i \in 1..Len(run_analyses(doc, sel, oc)) :
                            run_analyses(doc, sel, oc)[i].key = k
        c == IF "component_analysis" \in sel THEN <<"component_analysis">> ELSE <<>>
        p == IF "price_analysis" \in sel /\ in_results("component_analysis")
             THEN <<"price_analysis">> ELSE <<>>
        r == IF "cost_realism" \in sel /\ in_results("component_analysis")
             THEN <<"cost_realism">> ELSE <<>>
        t == IF "technical_analysis" \in sel THEN <<"technical_analysis">> ELSE <<>>
        a == IF "compliance_assessment" \in sel THEN <<"compliance_assessment">> ELSE <<>>
        y == IF "executive_summary" \in sel /\ run_analyses(doc, sel, oc) # <<>>
             THEN <<"proposal_summary">> ELSE <<>>
    IN c \o p \o r \o t \o a \o y

(* the checkboxes of the batch page *)
Checkboxes == KeySet \cup {"executive_summary"}

(* "Run Selected Analyses": run_analyses starts from an empty dict *)
RunSelectedAnalyses ==
    /\ last_action' = "RunSelectedAnalyses"
    /\ results = <<>>
    /\ \E doc \in Docs, sel \in SUBSET Checkboxes, oc \in [KeySet -> LLMOutcomes] :
         /\ results' = run_analyses(doc, sel, oc)
         /\ llm_calls' = run_analyses_calls(doc, sel, oc)
         /\ selected' = sel
    /\ report' = <<>>
    /\ UNCHANGED <<variant, session_state, uploaded_file, run_status,
                   request, response, queue, running, flight,
                   prompt, sessions, create_state>>

(* the user ticks or unticks an analysis: the script runs again without   *)
(* the button, and the dict of the previous run is gone                    *)
ChangeSelection ==
    /\ last_action' = "ChangeSelection"
    /\ results # <<>>
    /\ results' = <<>>
    /\ report' = <<>>
    /\ selected' = {}
    /\ llm_calls' = <<>>
    /\ UNCHANGED <<variant, session_state, uploaded_file, run_status, request, response,
                   queue, running, flight, prompt, sessions,
                   create_state>>

(* download_all_results applied to the dict of the run *)
DownloadAllResults ==
    /\ last_action' = "DownloadAllResults"
    /\ results # <<>>
    /\ report' = download_all_results(results)
    /\ UNCHANGED <<variant, session_state, uploaded_file, llm_calls, run_status,
                   request, response, queue, running, flight, results,
                   prompt, sessions, selected, create_state>>

ReportNext ==
    \/ RunSelectedAnalyses
    \/ ChangeSelection
    \/ DownloadAllResults

ReportSpec == ReportInit /\ [][ReportNext]_vars

(* position of a section label in the canonical order of the stages *)
Ordinal(label) ==
    CHOOSE n \in 1..Len(AnalysisKeys) : Title(AnalysisKeys[n]) = label

(* C18: the sections of the combined report are in canonical stage order: *)
(* component analysis, pricing, cost realism, technical, compliance.       *)
C18_SectionsInCanonicalOrder ==
    \A i, j \in 1..Len(report) :
        i < j => Ordinal(report[i].label) < Ordinal(report[j].label)

C18_Witness ==
    /\ Len(report) = 3
    /\ report[1].label = "Component Analysis"
    /\ report[2].label = "Cost Realism"
    /\ report[3].label = "Compliance Assessment"

(* a stage of the batch run is Completed when the dict holds a result for *)
(* it that is neither empty nor an error message                           *)
CompletedIn(res, key) ==
    \E i \in 1..Len(res) : res[i].key = key /\ res[i].value.tag = "text"

C20_SummaryRunnableAfterComponentAnalysis ==
    (/\ variant = "app"
     /\ session_state.mode = "with_proposal"
     /\ session_state.proposal_text # 0
     /\ Completed(session_state, 1)) => ENABLED GenerateSummaryReport

(***************************************************************************)
(* The prompt of the pricing stage.  A prompt is recorded by the values    *)
(* interpolated into it: the proposal text, the component scope section,   *)
(* the costing file section and the manual costing section.  The costing   *)
(* texts of a request are tagged apart from the component analysis.        *)
(***************************************************************************)
(* gemini_client.py: the f-string interpolates both arguments as they are *)
client_pricing_prompt(proposal_text, ai_analysis_details) ==
    [text |-> proposal_text, scope |-> ai_analysis_details,
     costing |-> None, manual |-> None]

(* backend/main.py GeminiClient.analyze_pricing: a section per argument   *)
(* that is truthy, a "No ... provided" sentence otherwise                  *)
server_pricing_prompt(proposal_text, ai_analysis_details, costing_file_text, manual_costing_text) ==
    [text |-> proposal_text,
     scope |-> IF Truthy(ai_analysis_details) THEN ai_analysis_details ELSE None,
     costing |-> IF Truthy(costing_file_text) THEN costing_file_text ELSE None,
     manual |-> IF Truthy(manual_costing_text) THEN manual_costing_text ELSE None]

(* the endpoint: gemini.analyze_pricing(request.proposal_text,            *)
(* request.costing_file_text, request.manual_costing_text), positionally   *)
pricing_endpoint_prompt(req) ==
    server_pricing_prompt(req.proposal_text, req.costing_file_text,
                          req.manual_costing_text, None)

(* the str values a client can send as component analysis *)
DetailsValues == {Val("text", d) : d \in Docs} \cup {Error}

(* Optional[str] = None fields of analyzePricingRequest *)
CostingValues == {None} \cup {Val("costing", d) : d \in Docs}
ManualValues == {None} \cup {Val("manual", d) : d \in Docs}

PricingRequests ==
    [proposal_text : Docs, ai_analysis_details : DetailsValues,
     costing_file_text : CostingValues, manual_costing_text : ManualValues]

PromptInit ==
    /\ Init
    /\ variant \in {"app", "api"}

(* POST /analyze/pricing with a valid body *)
PricingRequest ==
    /\ last_action' = "PricingRequest"
    /\ variant = "api"
    /\ \E req \in PricingRequests, o \in LLMOutcomes :
         /\ prompt' = [given |-> req.ai_analysis_details] @@ pricing_endpoint_prompt(req)
         /\ request' = [endpoint |-> "/analyze/pricing", doc |-> req.proposal_text,
                        kind |-> KindOf(req.ai_analysis_details), type |-> "none"]
         /\ response' = analyze_pricing_api(req.proposal_text,
                                            KindOf(req.ai_analysis_details), o)
    /\ llm_calls' = <<"price_analysis">>
    /\ UNCHANGED <<variant, session_state, uploaded_file, run_status, queue, running,
                   flight, results, report, sessions, selected,
                   create_state>>

(* app.py step 2 with the session's document and component analysis *)
PricingRun ==
    /\ last_action' = "PricingRun"
    /\ variant = "app"
    /\ \E d \in Docs, details \in DetailsValues \cup {Empty}, o \in LLMOutcomes :
         LET s == [session_state EXCEPT !.step = 2,
                                        !.proposal_text = d,
                                        !.current_filename = d,
                                        !.proposal_analysis = TRUE,
                                        !.ai_analysis_details = details,
                                        !.price_analysis = None]
         IN /\ session_state' = Step2PriceAnalysis(variant, s, o).s
            /\ prompt' = [given |-> details] @@ client_pricing_prompt(d, details)
    /\ llm_calls' = <<"price_analysis">>
    /\ UNCHANGED <<variant, uploaded_file, run_status, request, response, queue, running,
                   flight, results, report, sessions, selected,
                   create_state>>

PromptNext ==
    \/ PricingRequest
    \/ PricingRun

PromptSpec == PromptInit /\ [][PromptNext]_vars

(* C21: when a pricing run is given a component-analysis output, that     *)
(* output is what the prompt carries as the component scope.               *)
C21_ScopeIsComponentAnalysis ==
    (last_action \in {"PricingRequest", "PricingRun"} /\ Truthy(prompt.given)) =>
        prompt.scope = prompt.given

(***************************************************************************)
(* Two sessions of app.py on one server.  Every script run reads and       *)
(* writes st.session_state, which the runtime resolves to the state of the *)
(* session that runs the script; the module-level GeminiClient holds the   *)
(* model handles only.  The runs of the two sessions interleave freely.    *)
(***************************************************************************)
(* outcomes of the extraction and of the LLM calls drawn for the sessions *)
IsoExtOutcomes == {"text", "nothing"}
IsoLLMOutcomes == {"ok", "fail"}

(* each session works on a document of its own *)
DocOf(id) == IF id = "a" THEN 1 ELSE MaxDocs

IsoPageRuns(s, d) ==
    {RenderPage("app", s, f, oe, ol) :
        f \in FilesOf(d), oe \in IsoExtOutcomes, ol \in IsoLLMOutcomes}

(* session state as one module-level object shared by all sessions *)
session_store_Shared(store, id, r, f) ==
    [actor |-> id,
     state |-> [i \in SessionIds |->
                  [s |-> r.s,
                   f |-> IF r.s.mode = "with_proposal" /\ r.s.step = 1 THEN f ELSE NoFile,
                   status |-> IF r.exc THEN "exception" ELSE "ok"]]]

(* the end of a script run of session id: st.session_state of that        *)
(* session holds the run's assignments                                     *)
session_store(store, id, r, f) ==
    [actor |-> id,
     state |-> [store.state EXCEPT
                  ![id] = [s |-> r.s,
                           f |-> IF r.s.mode = "with_proposal" /\ r.s.step = 1
                                 THEN f ELSE NoFile,
                           status |-> IF r.exc THEN "exception" ELSE "ok"]]]

IsoInit ==
    /\ Init
    /\ variant = "app"

IsoFrame ==
    UNCHANGED <<variant, session_state, uploaded_file, llm_calls, run_status, request,
                response, queue, running, flight, results, report, prompt,
                   selected, create_state>>

SessionUpload ==
    /\ last_action' = "SessionUpload"
    /\ \E id \in SessionIds :
         LET me == sessions.state[id]
         IN /\ me.s.mode = "with_proposal" /\ me.s.step = 1
            /\ DocOf(id) # me.f
            /\ \E r \in IsoPageRuns(me.s, DocOf(id)) :
                 sessions' = session_store(sessions, id, r, DocOf(id))
    /\ IsoFrame

SessionProceed ==
    /\ last_action' = "SessionProceed"
    /\ \E id \in SessionIds :
         LET me == sessions.state[id]
         IN /\ me.s.mode = "with_proposal" /\ me.s.step < 6
            /\ me.status = "ok"
            /\ IF me.s.step = 1
               THEN /\ me.s.proposal_analysis
                    /\ \E r1 \in IsoPageRuns(me.s, me.f) :
                         IF r1.exc \/ ~r1.s.proposal_analysis
                         THEN sessions' = session_store(sessions, id, r1, me.f)
                         ELSE \E r2 \in IsoPageRuns([r1.s EXCEPT !.step = 2], NoFile) :
                                sessions' = session_store(sessions, id, r2, NoFile)
               ELSE /\ Truthy(ResultSlot(me.s, me.s.step))
                    /\ \E r \in IsoPageRuns([me.s EXCEPT !.step = me.s.step + 1], NoFile) :
                         sessions' = session_store(sessions, id, r, NoFile)
    /\ IsoFrame

SessionBack ==
    /\ last_action' = "SessionBack"
    /\ \E id \in SessionIds :
         LET me == sessions.state[id]
         IN /\ me.s.mode = "with_proposal" /\ me.s.step \in 2..5
            /\ Truthy(ResultSlot(me.s, me.s.step))
            /\ \E r \in IsoPageRuns([me.s EXCEPT !.step = me.s.step - 1], NoFile) :
                 sessions' = session_store(sessions, id, r, NoFile)
    /\ IsoFrame

SessionReset ==
    /\ last_action' = "SessionReset"
    /\ \E id \in SessionIds :
         LET me == sessions.state[id]
         IN /\ me.s.mode = "with_proposal"
            /\ \E r \in IsoPageRuns(reset_process_proposal(me.s), NoFile) :
                 sessions' = session_store(sessions, id, r, NoFile)
    /\ IsoFrame

SessionSwitchMode ==
    /\ last_action' = "SessionSwitchMode"
    /\ \E id \in SessionIds :
         LET me == sessions.state[id]
             mode == IF me.s.mode = "with_proposal"
                     THEN "create_proposal" ELSE "with_proposal"
         IN \E r \in IsoPageRuns(reset_process_proposal([me.s EXCEPT !.mode = mode]),
                                 NoFile) :
              sessions' = session_store(sessions, id, r, NoFile)
    /\ IsoFrame

IsoNext ==
    \/ SessionUpload
    \/ SessionProceed
    \/ SessionBack
    \/ SessionReset
    \/ SessionSwitchMode

IsoSpec == IsoInit /\ [][IsoNext]_vars

FairSpec ==
    /\ Spec
    /\ WF_vars(ProceedToPriceAnalysis)
    /\ WF_vars(ProceedToCostRealism)
    /\ WF_vars(ProceedToTechnicalAnalysis)
    /\ WF_vars(ProceedToComplianceAssessment)
    /\ WF_vars(GenerateSummaryReport)

ForwardActions ==
    {"Upload", "ProceedToPriceAnalysis", "ProceedToCostRealism",
     "ProceedToTechnicalAnalysis", "ProceedToComplianceAssessment",
     "GenerateSummaryReport"}

(* the last script run ended normally, the text in the session is that of *)
(* the file last uploaded, an upload went on to the component analysis,    *)
(* and every LLM call the run made returned a non-empty text               *)
RunSucceeded ==
    /\ run_status = "ok"
    /\ session_state.proposal_text # 0
    /\ session_state.current_filename = session_state.proposal_text
    /\ last_action = "Upload" => "component_analysis" \in Calls
    /\ \A i \in 1..6 :
         StageCall(i) \in Calls =>
             ResultSlot(session_state, i).tag \in {"text", "tuple_ok"}

SummaryPresent ==
    /\ session_state.step = 6
    /\ session_state.proposal_summary.tag = "text"

(* C23: when, from some point on, the user only uploads and goes forward  *)
(* and every extraction and LLM call succeeds, the workflow reaches the    *)
(* final stage with a summary report, in the app and in the frontend.      *)
C23_ForwardReachesSummary ==
    (Streamlit /\ <>[](last_action \in ForwardActions /\ RunSucceeded)) => <>SummaryPresent

(* the dict of the batch run has an entry for the stage *)
InResults(key) == \E i \in 1..Len(results) : results[i].key = key

C16_OverlappingRunRejected ==
    [][(last_action' = "CompleteHandler" /\ running.overlap) =>
          /\ response'.code \in 400..499
          /\ ~response'.called]_vars

(***************************************************************************)
(* The create-proposal mode of src/backend/app.py: nine steps, the first   *)
(* takes the RFP document and the company profile, each later one runs one *)
(* GeminiClient method and keeps its answer in a session key.  The session *)
(* of this workflow is create_state; it also holds the keys of the         *)
(* proposal analysis, whose step 1 is the only analysis page used here.    *)
(***************************************************************************)
(* the RFP document a user can upload, and what the profile box can hold *)
RfpDocs == {MaxDocs}
Profiles == {0, 1}

(* the session key that the page of each step fills (step 1 fills none) *)
CreateSlots == <<"none", "rfp_breakdown", "eligibility_analysis", "requirements", "tasks",
                 "competitive_analysis", "innovation_assessment", "executive_briefing",
                 "proposal">>
CreateSlotSet == {CreateSlots[k] : k \in 2..9}

(* GeminiClient.analyze_rfp, analyze_eligibility, extract_requirements,    *)
(* generate_tasks, analyze_competitive_landscape,                          *)
(* assess_innovation_opportunities, generate_executive_briefing and        *)
(* generate_project_proposal: response = generate_content(prompt);         *)
(* return response.text, with no try/except.  doc is the document the      *)
(* prompt is built from.                                                   *)
rfp_stage(doc, o) ==
    CASE o = "ok" -> Val("text", doc)
      [] o = "empty" -> Empty
      [] OTHER -> Raise

(* extract_text_from_docx / extract_text_from_uploaded_pdf: the text of    *)
(* the response, every exception re-raised                                 *)
extract_text_from_docx(doc, oe) ==
    CASE oe = "text" -> Val("text", doc)
      [] oe = "nothing" -> Empty
      [] OTHER -> Raise

process_uploaded_file(f, oe) ==
    CASE f.type = "text/plain" ->
            (CASE oe = "text" -> Val("text", f.doc)
               [] oe = "nothing" -> Empty
               [] OTHER -> Raise)
      [] f.type \in {DOCX, "application/pdf"} ->
            LET content == extract_text_from_docx(f.doc, oe)
            IN IF content.tag = "raise" \/ Truthy(content) THEN content ELSE None
      [] OTHER -> None

(* reset_process: every key but company_profile is deleted, mode included, *)
(* then step is set to 1 *)
reset_process(s) ==
    [CreateSessionInit EXCEPT !.mode = "absent", !.company_profile = s.company_profile]

(* the top of the script: `if 'mode' not in st.session_state` *)
module_defaults(s) ==
    IF s.mode = "absent" THEN [s EXCEPT !.mode = "with_proposal"] ELSE s

(* the top of the create branch: a missing company_profile key is read     *)
(* from the profile file (pf = 1) or is "" when the file cannot be opened  *)
create_defaults(s, pf) ==
    IF s.company_profile = NoProfile THEN [s EXCEPT !.company_profile = pf] ELSE s

(* the company-profile column of step 1: the box returns the text the user *)
(* typed (typed = 1) or its default; a non-empty text is stored            *)
ProfileColumn(s, typed) ==
    RunOf(IF typed # 0 THEN [s EXCEPT !.company_profile = typed] ELSE s, <<>>, FALSE)

(* step 1.  After a successful extraction the preview calls st.markdown    *)
(* with the keywords value, height and disabled, which st.markdown does    *)
(* not accept: the run ends there with a TypeError, the text is stored.    *)
CreateStep1(s, f, oe, typed) ==
    IF f.doc = NoFile THEN ProfileColumn(s, typed)
    ELSE LET s1 == [s EXCEPT !.current_filename = f.doc]
             extracted_text == process_uploaded_file(f, oe)
         IN CASE extracted_text.tag = "raise" -> RunOf(s1, <<>>, TRUE)
              [] Truthy(extracted_text) ->
                    RunOf([s1 EXCEPT !.rfp_text = extracted_text.doc], <<>>, TRUE)
              [] OTHER -> ProfileColumn(s1, typed)

(* the document a stage builds its prompt from: generate_tasks gets the    *)
(* requirements result, every other stage the RFP text                     *)
StageInput(s, k) == IF k = "tasks" THEN s.requirements.doc ELSE s.rfp_text

(* steps 2..9: `if not st.session_state.<key>: <key> = gemini.<method>()`  *)
CreateStage(s, ol) ==
    LET k == CreateSlots[s.step]
    IN IF Truthy(s[k]) THEN RunOf(s, <<>>, FALSE)
       ELSE LET r == rfp_stage(StageInput(s, k), ol)
            IN IF r.tag = "raise" THEN RunOf(s, <<k>>, TRUE)
               ELSE RunOf([s EXCEPT ![k] = r], <<k>>, FALSE)

(* the `elif st.session_state.mode == "create_proposal":` branch *)
CreatePage(s, f, oe, ol, typed, pf) ==
    LET s0 == create_defaults(s, pf)
    IN CASE s0.step = 1 -> CreateStep1(s0, f, oe, typed)
         [] s0.step \in 2..9 -> CreateStage(s0, ol)
         [] OTHER -> RunOf(s0, <<>>, FALSE)

(* one run of the script of app.py from session s with document d in the  *)
(* uploader of the page *)
AppRuns(s, d, typed) ==
    LET s0 == module_defaults(s)
    IN IF s0.mode = "create_proposal"
       THEN {CreatePage(s0, f, oe, ol, typed, pf) :
                f \in FilesOf(d), oe \in ExtOutcomes, ol \in LLMOutcomes, pf \in Profiles}
       ELSE {Step1Upload("app", s0, f, oe, ol) :
                f \in FilesOf(d), oe \in ExtOutcomes, ol \in LLMOutcomes}

CreateFinish(r, d) ==
    /\ create_state' = [r.s EXCEPT !.rfp_file =
                            IF r.s.mode = "create_proposal" /\ r.s.step = 1
                            THEN d ELSE NoFile]
    /\ llm_calls' = r.calls
    /\ run_status' = IF r.exc THEN "exception" ELSE "ok"
    /\ UNCHANGED <<variant, session_state, uploaded_file, request, response, queue,
                   running, flight, results, report, prompt, sessions, selected>>

InCreate == variant = "app" /\ create_state.mode = "create_proposal"

(* a step 1 page that offers the start button whatever was provided *)
StartButtonShown_Always(s) == TRUE

(* `if st.session_state.rfp_text and st.session_state.company_profile:`,   *)
(* the condition under which step 1 renders "Start Analysis Process"       *)
StartButtonShown(s) == s.rfp_text # 0 /\ s.company_profile # 0

(* next_step(): st.session_state.step += 1 *)
next_step(s) == [s EXCEPT !.step = @ + 1]

(* a handler that also drops the executive briefing *)
generate_new_proposal_ClearsBriefing(s) ==
    [s EXCEPT !.proposal = None, !.executive_briefing = None]

(* handler of "Generate New Proposal": st.session_state.proposal = None *)
generate_new_proposal(s) ==
    [s EXCEPT !.proposal = None]

(* the statements under `if st.button(...)` of the page buttons *)
ButtonHandler(h, s) ==
    CASE h = "start_analysis" -> [s EXCEPT !.step = 2]
      [] h = "next_step" -> next_step(s)
      [] h = "generate_new_proposal" -> generate_new_proposal(s)
      [] OTHER -> reset_process(s)

(* a click on page button h: the run that handles it executes the page    *)
(* above the button first; when that raises the click is lost, otherwise   *)
(* the handler of the button changes the session and st.rerun() runs the   *)
(* script again with an empty uploader                                     *)
ClickOnPage(h) ==
    \E r1 \in AppRuns(create_state, create_state.rfp_file, 0) :
        IF r1.exc THEN CreateFinish(r1, create_state.rfp_file)
        ELSE \E r2 \in AppRuns(ButtonHandler(h, r1.s), NoFile, 0) :
                CreateFinish(RunOf(r2.s, r1.calls \o r2.calls, r2.exc), NoFile)

CreateInit ==
    /\ Init
    /\ variant = "app"

(* header button "Create Proposal": the handler runs before any page *)
SwitchToCreate ==
    /\ last_action' = "SwitchToCreate"
    /\ variant = "app"
    /\ create_state.mode = "with_proposal"
    /\ \E r \in AppRuns(reset_process_proposal([create_state EXCEPT !.mode = "create_proposal"]),
                        NoFile, 0) :
        CreateFinish(r, NoFile)

(* header button "Go To Main Page" *)
SwitchToAnalysis ==
    /\ last_action' = "SwitchToAnalysis"
    /\ InCreate
    /\ \E r \in AppRuns(reset_process_proposal([create_state EXCEPT !.mode = "with_proposal"]),
                        NoFile, 0) :
        CreateFinish(r, NoFile)

(* proposal-analysis mode, step 1: the user uploads a proposal *)
UploadProposal ==
    /\ last_action' = "UploadProposal"
    /\ variant = "app"
    /\ create_state.mode = "with_proposal"
    /\ \E r \in AppRuns(create_state, 1, 0) : CreateFinish(r, NoFile)

(* create step 1: the user puts an RFP document in the uploader *)
UploadRfp ==
    /\ last_action' = "UploadRfp"
    /\ InCreate /\ create_state.step = 1
    /\ \E d \in RfpDocs :
        /\ d # create_state.rfp_file
        /\ \E r \in AppRuns(create_state, d, 0) : CreateFinish(r, d)

(* create step 1: the user takes the document out of the uploader *)
RemoveRfp ==
    /\ last_action' = "RemoveRfp"
    /\ InCreate /\ create_state.step = 1
    /\ create_state.rfp_file # NoFile
    /\ \E r \in AppRuns(create_state, NoFile, 0) : CreateFinish(r, NoFile)

(* create step 1: the user types a company profile; the box is on the      *)
(* page only when the last run reached it                                   *)
TypeProfile ==
    /\ last_action' = "TypeProfile"
    /\ InCreate /\ create_state.step = 1
    /\ run_status = "ok"
    /\ \E r \in AppRuns(create_state, create_state.rfp_file, 1) :
        CreateFinish(r, create_state.rfp_file)

(* "Start Analysis Process", offered when RFP text and profile are truthy *)
StartAnalysisProcess ==
    /\ last_action' = "StartAnalysisProcess"
    /\ InCreate /\ create_state.step = 1
    /\ run_status = "ok"
    /\ StartButtonShown(create_state)
    /\ ClickOnPage("start_analysis")

(* the "Proceed to ..." / "Yes, proceed ..." button of steps 2..8:         *)
(* next_step(); st.rerun()                                                 *)
Proceed ==
    /\ last_action' = "Proceed"
    /\ InCreate /\ create_state.step \in 2..8
    /\ run_status = "ok"
    /\ ClickOnPage("next_step")

(* step 9, "Generate New Proposal": proposal = None; st.rerun() *)
GenerateNewProposal ==
    /\ last_action' = "GenerateNewProposal"
    /\ InCreate /\ create_state.step = 9
    /\ run_status = "ok"
    /\ ClickOnPage("generate_new_proposal")

(* sidebar button "Start Over": reset_process(); st.rerun().  The sidebar  *)
(* is built before the page of the step.                                   *)
StartOver ==
    /\ last_action' = "StartOver"
    /\ InCreate
    /\ \E r \in AppRuns(reset_process(create_state), NoFile, 0) : CreateFinish(r, NoFile)

(* "No, start over with a different RFP" of step 3 and "Start New RFP      *)
(* Analysis" of step 9: reset_process(); st.rerun()                        *)
StartOverOnPage ==
    /\ last_action' = "StartOverOnPage"
    /\ InCreate /\ create_state.step \in {3, 9}
    /\ run_status = "ok"
    /\ ClickOnPage("reset_process")

CreateNext ==
    \/ SwitchToCreate
    \/ SwitchToAnalysis
    \/ UploadProposal
    \/ UploadRfp
    \/ RemoveRfp
    \/ TypeProfile
    \/ StartAnalysisProcess
    \/ Proceed
    \/ GenerateNewProposal
    \/ StartOver
    \/ StartOverOnPage

CreateSpec == CreateInit /\ [][CreateNext]_vars

(* C25: "Generate New Proposal", clicked while a proposal is shown, leaves *)
(* every session key but proposal as it was (step pointer, RFP text,       *)
(* company profile and every other result), and the run that follows asks  *)
(* the LLM once, for the proposal of the same RFP text, whose answer (or    *)
(* None when the call raises) is the new value of proposal.                *)
C25_OnlyProposalRegenerated ==
    [][(last_action' = "GenerateNewProposal" /\ Truthy(create_state.proposal)) =>
          /\ \A k \in DOMAIN create_state \ {"proposal"} :
                create_state'[k] = create_state[k]
          /\ llm_calls' = <<"proposal">>
          /\ create_state'.proposal \in
                {None, Empty, Val("text", create_state.rfp_text)}]_vars

C25_Witness ==
    /\ last_action = "GenerateNewProposal"
    /\ create_state.step = 9
    /\ llm_calls = <<"proposal">>
    /\ create_state.proposal = Val("text", create_state.rfp_text)
    /\ \A k \in CreateSlotSet : Truthy(create_state[k])

(* the result keys each workflow shows *)
AnalysisResultKeys == {"ai_analysis_details", "proposal_summary", "price_analysis",
                       "cost_realism", "technical_analysis", "compliance_assessment"}
ResultKeysOf(m) == IF m = "create_proposal" THEN CreateSlotSet ELSE AnalysisResultKeys

(* C26: right after a mode switch ("Create Proposal" or "Go To Main Page") *)
(* the step pointer is 1 and the workflow that was entered holds no result *)
(* of an earlier document: every result key of that workflow is None.      *)
C26_ModeSwitchStartsClean ==
    last_action \in {"SwitchToCreate", "SwitchToAnalysis"} =>
        /\ create_state.step = 1
        /\ \A k \in ResultKeysOf(create_state.mode) : create_state[k] = None

(* C27: after the sidebar button "Start Over" of the create-proposal mode  *)
(* the step pointer is 1, there is no RFP text and no RFP-derived result,  *)
(* and the session is still in create-proposal mode.                       *)
C27_StartOverStaysInCreateMode ==
    last_action = "StartOver" =>
        /\ create_state.step = 1
        /\ create_state.rfp_text = 0
        /\ \A k \in CreateSlotSet : create_state[k] = None
        /\ create_state.mode = "create_proposal"

(* C29: in create-proposal mode, whenever the step pointer is 2 or more    *)
(* the RFP text and the company profile are both non-empty; and an action  *)
(* that called the LLM for the tasks found a stored requirements result.   *)
C29_StagesHaveInputs ==
    /\ (InCreate /\ create_state.step >= 2) =>
          /\ create_state.rfp_text # 0
          /\ create_state.company_profile = 1
    /\ "tasks" \in Calls => create_state.requirements # None

C29_Witness ==
    /\ InCreate /\ create_state.step = 5
    /\ last_action = "Proceed"
    /\ "tasks" \in Calls
    /\ create_state.requirements = Val("text", create_state.rfp_text)
    /\ create_state.tasks = Val("text", create_state.rfp_text)
    /\ create_state.company_profile = 1

====
